---- MODULE Spec2Model ----
(***************************************************************************)
(* Model of database/scripts/generate_cross_references.py: the driver that *)
(* resolves two paths, checks that the downloaded dataset exists, builds a *)
(* CrossReferencesGeneratorPSQL and calls generate() on it.                *)
(*                                                                         *)
(* A path is the sequence of its components, as split on "/":              *)
(*   ""  = <<"">>,  "/" = <<"", "">>,  "/home/u" = <<"", "home", "u">>,   *)
(*   "output" = <<"output">>,  "a/" = <<"a", "">>.                         *)
(*                                                                         *)
(* Two executions of the script, Runs, are modelled side by side: they     *)
(* start in the same world (HOME, script location, files on disk, delegate *)
(* behaviour) and differ at most in their command-line arguments.          *)
(***************************************************************************)
EXTENDS Integers, Sequences, FiniteSets, TLC

\* The largest number of SQL files one generate() call writes.
MaxWrites == 2

Runs == {"a", "b"}

----------------------------------------------------------------------------
(* Paths: the parts of posixpath the driver uses.                          *)

Front(s) == SubSeq(s, 1, Len(s) - 1)
Last(s) == s[Len(s)]

\* String concatenation s + t on component sequences.
Cat(s, t) == Front(s) \o <<Last(s) \o Head(t)>> \o Tail(t)

RECURSIVE rstrip(_)
\* str.rstrip('/')
rstrip(s) == IF Len(s) > 1 /\ Last(s) = "" THEN rstrip(Front(s)) ELSE s

AllSlashes(s) == \A i \in 1..Len(s) : s[i] = ""

\* A home directory that cannot be resolved (no HOME, no passwd entry).
NoHome == <<>>

\* os.path.expanduser(path) for a path whose tilde stands alone ("~" or "~/...").
expanduser(path, userhome) ==
    IF Head(path) # "~" THEN path
    ELSE IF userhome = NoHome THEN path
    ELSE LET rest == IF Len(path) = 1 THEN <<"">> ELSE <<"">> \o Tail(path)
             res == Cat(rstrip(userhome), rest)
         IN  IF res = <<"">> THEN <<"", "">> ELSE res

\* os.path.dirname(p)
dirname(p) ==
    IF Len(p) = 1 THEN <<"">>
    ELSE LET head == Front(p) \o <<"">>
         IN  IF AllSlashes(head) THEN head ELSE rstrip(head)

\* os.path.join(a, b) for a relative b
join(a, b) ==
    IF a = <<"">> \/ Last(a) = "" THEN Cat(a, b)
    ELSE Cat(a, <<"">> \o b)

\* '~/Downloads/bible_databases/sources'
SourcePattern == <<"~", "Downloads", "bible_databases", "sources">>
\* 'output'
OutputName == <<"output">>
\* "/psql/extras/"
ExtrasSuffix == <<"", "psql", "extras", "">>

----------------------------------------------------------------------------
(* Console messages.                                                       *)

MsgError == "ERROR: Please download the bible_databases repo first:"
MsgClone == "cd ~/Downloads && git clone https://github.com/scrollmapper/bible_databases.git"
MsgGenerated == "Cross-reference SQL file generated!"
MsgLocation == "Location: "

\* One observable step of the driver.
Ev(e, w, a) == [ev |-> e, what |-> w, args |-> a]

----------------------------------------------------------------------------
(* The world the script is started in.                                     *)

Homes == {NoHome, <<"", "">>, <<"", "home", "u">>}
Files == {<<"generate_cross_references.py">>,
          <<"", "generate_cross_references.py">>,
          <<"", "repo", "database", "scripts", "generate_cross_references.py">>}
Names == {"__main__", "generate_cross_references"}
\* What follows the script name on the command line.
ArgLists == {<<>>, << <<"", "tmp", "sources">> >>}
Kinds == {"absent", "file", "dir"}

Behaviours ==
    {b \in [importRaises : BOOLEAN, ctorRaises : BOOLEAN, ctorMkdir : BOOLEAN,
            genRaises : BOOLEAN, genWrites : 0..MaxWrites] :
        b.genRaises \/ b.genWrites >= 1}

Entry(p, k) == [path |-> p, kind |-> k]

\* The files on disk before the script starts.
InitialFs(h, f, srcKind, argKind, outThere) ==
    (IF srcKind = "absent" THEN {} ELSE {Entry(expanduser(SourcePattern, h), srcKind)})
    \cup (IF argKind = "absent" THEN {} ELSE {Entry(<<"", "tmp", "sources">>, argKind)})
    \cup (IF outThere THEN {Entry(join(dirname(f), OutputName), "dir")} ELSE {})

\* os.path.exists(p)
exists(fsr, p) == \E e \in fsr : e.path = p

----------------------------------------------------------------------------
(* The delegate, CrossReferencesGeneratorPSQL.                             *)

SqlFile(k) == <<"cross_references_" \o ToString(k) \o ".sql">>

\* The constructor's effect on the disk: it may create the output directory.
GeneratorInitFs(fsr, b, fmt) ==
    IF b.ctorMkdir /\ ~exists(fsr, fmt) THEN fsr \cup {Entry(fmt, "dir")} ELSE fsr

\* generate()'s effect on the disk: SQL files under <format_directory>/psql/extras/.
GeneratorGenerateFs(fsr, b, fmt) ==
    LET extras == Cat(fmt, ExtrasSuffix)
        written == {Entry(Cat(extras, SqlFile(k)), "file") : k \in 1..b.genWrites}
        new == {e \in written : ~exists(fsr, e.path)}
    IN  fsr \cup new

----------------------------------------------------------------------------
VARIABLES
    home,              \* what "~" expands to
    file,              \* __file__
    name,              \* __name__
    beh,               \* how the delegate behaves in this world
    fs0,               \* the files on disk at the start
    argv,              \* per run: sys.argv[1:]
    pc,                \* per run: the statement about to execute
    source_directory,  \* per run: main's local
    format_directory,  \* per run: main's local
    generator,         \* per run: main's local cross_references_generator
    events,            \* per run: what the driver did, in order
    fs,                \* per run: the files on disk
    exc,               \* per run: the exception in flight
    exitStatus         \* per run: the process exit status, -1 while running

world == <<home, file, name, beh, fs0, argv>>
vars == <<home, file, name, beh, fs0, argv, pc, source_directory, format_directory,
          generator, events, fs, exc, exitStatus>>

Unset == <<>>

Init ==
    /\ home \in Homes
    /\ file \in Files
    /\ name \in Names
    /\ beh \in Behaviours
    /\ \E srcKind \in Kinds, argKind \in {"absent", "dir"}, outThere \in BOOLEAN :
          fs0 = InitialFs(home, file, srcKind, argKind, outThere)
    /\ argv \in [Runs -> ArgLists]
    /\ pc = [r \in Runs |-> "import"]
    /\ source_directory = [r \in Runs |-> Unset]
    /\ format_directory = [r \in Runs |-> Unset]
    /\ generator = [r \in Runs |-> Unset]
    /\ events = [r \in Runs |-> <<>>]
    /\ fs = [r \in Runs |-> fs0]
    /\ exc = [r \in Runs |-> "none"]
    /\ exitStatus = [r \in Runs |-> -1]

Goto(r, l) == pc' = [pc EXCEPT ![r] = l]
Emit(r, e) == events' = [events EXCEPT ![r] = Append(@, e)]

\* line 7: from scripts.generators... import CrossReferencesGeneratorPSQL
ImportDelegate(r) ==
    /\ pc[r] = "import"
    /\ IF beh.importRaises
         THEN exc' = [exc EXCEPT ![r] = "ImportError"] /\ Goto(r, "uncaught")
         ELSE exc' = exc /\ Goto(r, "guard")
    /\ UNCHANGED <<world, source_directory, format_directory, generator, events, fs,
                   exitStatus>>

\* line 26: if __name__ == "__main__":
NameGuard(r) ==
    /\ pc[r] = "guard"
    /\ IF name = "__main__" THEN Goto(r, "main") ELSE Goto(r, "module_end")
    /\ UNCHANGED <<world, source_directory, format_directory, generator, events, fs,
                   exc, exitStatus>>

\* ResolvePaths, were the driver to create <format_directory>/psql/extras/ itself.
ResolvePaths_mkdir(r) ==
    /\ pc[r] = "main"
    /\ source_directory' =
          [source_directory EXCEPT ![r] = expanduser(SourcePattern, home)]
    /\ format_directory' =
          [format_directory EXCEPT ![r] = join(dirname(file), OutputName)]
    /\ fs' = [fs EXCEPT ![r] =
                 @ \cup {Entry(Cat(join(dirname(file), OutputName), ExtrasSuffix), "dir")}]
    /\ Goto(r, "check")
    /\ UNCHANGED <<world, generator, events, exc, exitStatus>>

\* ResolvePaths, were the driver to take the source directory from sys.argv[1].
ResolvePaths_argv(r) ==
    /\ pc[r] = "main"
    /\ source_directory' =
          [source_directory EXCEPT ![r] =
              IF Len(argv[r]) > 0 THEN argv[r][1]
              ELSE expanduser(SourcePattern, home)]
    /\ format_directory' =
          [format_directory EXCEPT ![r] = join(dirname(file), OutputName)]
    /\ Goto(r, "check")
    /\ UNCHANGED <<world, generator, events, fs, exc, exitStatus>>

\* lines 11-12
ResolvePaths(r) ==
    /\ pc[r] = "main"
    /\ source_directory' =
          [source_directory EXCEPT ![r] = expanduser(SourcePattern, home)]
    /\ format_directory' =
          [format_directory EXCEPT ![r] = join(dirname(file), OutputName)]
    /\ Goto(r, "check")
    /\ UNCHANGED <<world, generator, events, fs, exc, exitStatus>>

\* os.path.isdir(p)
isdir(fsr, p) == \E e \in fsr : e.path = p /\ e.kind = "dir"

\* CheckSource, were the test "if os.path.exists(source_directory):".
CheckSource_inverted(r) ==
    /\ pc[r] = "check"
    /\ LET found == exists(fs[r], source_directory[r])
       IN  /\ Emit(r, Ev("exists", IF found THEN "true" ELSE "false",
                         <<source_directory[r]>>))
           /\ IF found THEN Goto(r, "print_error") ELSE Goto(r, "construct")
    /\ UNCHANGED <<world, source_directory, format_directory, generator, fs, exc,
                   exitStatus>>

\* CheckSource, were the test "if not os.path.isdir(source_directory):".
CheckSource_isdir(r) ==
    /\ pc[r] = "check"
    /\ LET found == isdir(fs[r], source_directory[r])
       IN  /\ Emit(r, Ev("exists", IF found THEN "true" ELSE "false",
                         <<source_directory[r]>>))
           /\ IF found THEN Goto(r, "construct") ELSE Goto(r, "print_error")
    /\ UNCHANGED <<world, source_directory, format_directory, generator, fs, exc,
                   exitStatus>>

\* line 14: if not os.path.exists(source_directory):
CheckSource(r) ==
    /\ pc[r] = "check"
    /\ LET found == exists(fs[r], source_directory[r])
       IN  /\ Emit(r, Ev("exists", IF found THEN "true" ELSE "false",
                         <<source_directory[r]>>))
           /\ IF found THEN Goto(r, "construct") ELSE Goto(r, "print_error")
    /\ UNCHANGED <<world, source_directory, format_directory, generator, fs, exc,
                   exitStatus>>

\* line 15
PrintError(r) ==
    /\ pc[r] = "print_error"
    /\ Emit(r, Ev("print", MsgError, <<>>))
    /\ Goto(r, "print_clone")
    /\ UNCHANGED <<world, source_directory, format_directory, generator, fs, exc,
                   exitStatus>>

\* line 16
PrintClone(r) ==
    /\ pc[r] = "print_clone"
    /\ Emit(r, Ev("print", MsgClone, <<>>))
    /\ Goto(r, "return")
    /\ UNCHANGED <<world, source_directory, format_directory, generator, fs, exc,
                   exitStatus>>

\* EarlyReturn, were line 17 "sys.exit(1)".
EarlyReturn_sysexit(r) ==
    /\ pc[r] = "return"
    /\ exc' = [exc EXCEPT ![r] = "SystemExit"]
    /\ Goto(r, "uncaught")
    /\ UNCHANGED <<world, source_directory, format_directory, generator, events, fs,
                   exitStatus>>

\* EarlyReturn, were line 17 missing.
EarlyReturn_fallthrough(r) ==
    /\ pc[r] = "return"
    /\ Goto(r, "construct")
    /\ UNCHANGED <<world, source_directory, format_directory, generator, events, fs,
                   exc, exitStatus>>

\* line 17: return
EarlyReturn(r) ==
    /\ pc[r] = "return"
    /\ Goto(r, "after_main")
    /\ UNCHANGED <<world, source_directory, format_directory, generator, events, fs,
                   exc, exitStatus>>

\* Construct, were the two arguments passed in the other order.
Construct_swapped(r) ==
    /\ pc[r] = "construct"
    /\ Emit(r, Ev("construct", "CrossReferencesGeneratorPSQL",
                  <<format_directory[r], source_directory[r]>>))
    /\ fs' = [fs EXCEPT ![r] = GeneratorInitFs(@, beh, source_directory[r])]
    /\ IF beh.ctorRaises
         THEN /\ exc' = [exc EXCEPT ![r] = "ConstructorError"]
              /\ generator' = generator
              /\ Goto(r, "uncaught")
         ELSE /\ exc' = exc
              /\ generator' = [generator EXCEPT ![r] =
                    <<[source_directory |-> format_directory[r],
                       format_directory |-> source_directory[r]]>>]
              /\ Goto(r, "generate")
    /\ UNCHANGED <<world, source_directory, format_directory, exitStatus>>

\* line 20: cross_references_generator = CrossReferencesGeneratorPSQL(...)
Construct(r) ==
    /\ pc[r] = "construct"
    /\ Emit(r, Ev("construct", "CrossReferencesGeneratorPSQL",
                  <<source_directory[r], format_directory[r]>>))
    /\ fs' = [fs EXCEPT ![r] = GeneratorInitFs(@, beh, format_directory[r])]
    /\ IF beh.ctorRaises
         THEN /\ exc' = [exc EXCEPT ![r] = "ConstructorError"]
              /\ generator' = generator
              /\ Goto(r, "uncaught")
         ELSE /\ exc' = exc
              /\ generator' = [generator EXCEPT ![r] =
                    <<[source_directory |-> source_directory[r],
                       format_directory |-> format_directory[r]]>>]
              /\ Goto(r, "generate")
    /\ UNCHANGED <<world, source_directory, format_directory, exitStatus>>

\* Generate, were line 21 wrapped in "try: ... except Exception: pass".
Generate_swallow(r) ==
    /\ pc[r] = "generate"
    /\ Emit(r, Ev("generate", "CrossReferencesGeneratorPSQL", generator[r]))
    /\ fs' = [fs EXCEPT ![r] =
                 GeneratorGenerateFs(@, beh, generator[r][1].format_directory)]
    /\ Goto(r, "print_generated")
    /\ UNCHANGED <<world, source_directory, format_directory, generator, exc,
                   exitStatus>>

\* Generate, were generate() called a second time after it returned.
Generate_twice(r) ==
    /\ pc[r] = "generate"
    /\ fs' = [fs EXCEPT ![r] =
                 GeneratorGenerateFs(@, beh, generator[r][1].format_directory)]
    /\ IF beh.genRaises
         THEN /\ Emit(r, Ev("generate", "CrossReferencesGeneratorPSQL", generator[r]))
              /\ exc' = [exc EXCEPT ![r] = "GenerateError"]
              /\ Goto(r, "uncaught")
         ELSE /\ events' = [events EXCEPT ![r] =
                    @ \o <<Ev("generate", "CrossReferencesGeneratorPSQL", generator[r]),
                           Ev("generate", "CrossReferencesGeneratorPSQL", generator[r])>>]
              /\ exc' = exc
              /\ Goto(r, "print_generated")
    /\ UNCHANGED <<world, source_directory, format_directory, generator, exitStatus>>

\* line 21: cross_references_generator.generate()
Generate(r) ==
    /\ pc[r] = "generate"
    /\ Emit(r, Ev("generate", "CrossReferencesGeneratorPSQL", generator[r]))
    /\ fs' = [fs EXCEPT ![r] =
                 GeneratorGenerateFs(@, beh, generator[r][1].format_directory)]
    /\ IF beh.genRaises
         THEN exc' = [exc EXCEPT ![r] = "GenerateError"] /\ Goto(r, "uncaught")
         ELSE exc' = exc /\ Goto(r, "print_generated")
    /\ UNCHANGED <<world, source_directory, format_directory, generator, exitStatus>>

\* line 23
PrintGenerated(r) ==
    /\ pc[r] = "print_generated"
    /\ Emit(r, Ev("print", MsgGenerated, <<>>))
    /\ Goto(r, "print_location")
    /\ UNCHANGED <<world, source_directory, format_directory, generator, fs, exc,
                   exitStatus>>

\* PrintLocation, were the message built from source_directory.
PrintLocation_source(r) ==
    /\ pc[r] = "print_location"
    /\ Emit(r, Ev("print", MsgLocation, <<Cat(source_directory[r], ExtrasSuffix)>>))
    /\ Goto(r, "after_main")
    /\ UNCHANGED <<world, source_directory, format_directory, generator, fs, exc,
                   exitStatus>>

\* line 24: print(f"... Location: {format_directory}/psql/extras/")
PrintLocation(r) ==
    /\ pc[r] = "print_location"
    /\ Emit(r, Ev("print", MsgLocation, <<Cat(format_directory[r], ExtrasSuffix)>>))
    /\ Goto(r, "after_main")
    /\ UNCHANGED <<world, source_directory, format_directory, generator, fs, exc,
                   exitStatus>>

\* line 27 returns, or the module was only imported: the interpreter ends normally.
ExitNormally(r) ==
    /\ pc[r] \in {"after_main", "module_end"}
    /\ exitStatus' = [exitStatus EXCEPT ![r] = 0]
    /\ Goto(r, "exited")
    /\ UNCHANGED <<world, source_directory, format_directory, generator, events, fs,
                   exc>>

\* No statement of the script is inside a try: the interpreter reports the
\* exception and ends with status 1.
ExitUncaught(r) ==
    /\ pc[r] = "uncaught"
    /\ exitStatus' = [exitStatus EXCEPT ![r] = 1]
    /\ Goto(r, "exited")
    /\ UNCHANGED <<world, source_directory, format_directory, generator, events, fs,
                   exc>>

Next ==
    \E r \in Runs :
        \/ ImportDelegate(r)
        \/ NameGuard(r)
        \/ ResolvePaths(r)
        \/ CheckSource(r)
        \/ PrintError(r)
        \/ PrintClone(r)
        \/ EarlyReturn(r)
        \/ Construct(r)
        \/ Generate(r)
        \/ PrintGenerated(r)
        \/ PrintLocation(r)
        \/ ExitNormally(r)
        \/ ExitUncaught(r)

Spec == Init /\ [][Next]_vars

----------------------------------------------------------------------------
(* Vocabulary of the properties.                                           *)

\* The path the driver is meant to look for: ~/Downloads/bible_databases/sources.
SourcePath == expanduser(SourcePattern, home)
\* <script directory>/output
OutputPath == join(dirname(file), OutputName)

Idx(r) == 1..Len(events[r])
Count(r, e) == Cardinality({i \in Idx(r) : events[r][i].ev = e})
Printed(r, m) == \E i \in Idx(r) : events[r][i].ev = "print" /\ events[r][i].what = m
EvKinds(r) == [i \in Idx(r) |-> events[r][i].ev]
Done(r) == pc[r] = "exited"
Checked(r) == Count(r, "exists") > 0
\* No delegate has run before the check, so the disk at the check is fs0.
MissingAtCheck(r) == Checked(r) /\ ~exists(fs0, SourcePath)
ExistsAtCheck(r) == Checked(r) /\ exists(fs0, SourcePath)
DelegateRaised(r) == exc[r] \in {"ConstructorError", "GenerateError"}

TypeOK ==
    /\ home \in Homes /\ file \in Files /\ name \in Names /\ beh \in Behaviours
    /\ argv \in [Runs -> ArgLists]
    /\ pc \in [Runs -> {"import", "guard", "module_end", "main", "check", "print_error",
                        "print_clone", "return", "construct", "generate",
                        "print_generated", "print_location", "after_main", "uncaught",
                        "exited"}]
    /\ exc \in [Runs -> {"none", "ImportError", "ConstructorError", "GenerateError"}]
    /\ exitStatus \in [Runs -> {-1, 0, 1}]
    /\ \A r \in Runs : Len(generator[r]) <= 1 /\ Len(events[r]) <= 5

----------------------------------------------------------------------------
\* C1: a run whose check finds the source directory missing never constructs
\* the generator and never calls generate(), and by the time it has ended it
\* has printed both lines of the remediation message.
C1_MissingSourceNoConstruct ==
    \A r \in Runs :
        MissingAtCheck(r) =>
            /\ Count(r, "construct") = 0
            /\ Count(r, "generate") = 0
            /\ generator[r] = Unset
            /\ pc[r] \notin {"construct", "generate", "print_generated", "print_location"}
            /\ Done(r) => Printed(r, MsgError) /\ Printed(r, MsgClone)

C1_Witness ==
    \E r \in Runs : Done(r) /\ MissingAtCheck(r) /\ Printed(r, MsgClone)

\* C2 as stated: a finished run whose check found the source directory has
\* constructed the generator exactly once with (source_directory,
\* format_directory) and called generate() exactly once on it.
C2_Original ==
    \A r \in Runs :
        Done(r) /\ ExistsAtCheck(r) =>
            /\ Count(r, "construct") = 1
            /\ Count(r, "generate") = 1
            /\ \A i \in Idx(r) :
                  events[r][i].ev = "construct" =>
                      events[r][i].args = <<SourcePath, OutputPath>>

\* C2, amended: a finished run whose check found the source directory has
\* called the constructor exactly once, with (the path that was checked,
\* <script directory>/output) in that order; if the constructor returned,
\* generate() was called exactly once, on the instance built from those two
\* paths; if the constructor raised, generate() was not called.
C2_ConstructOnceGenerateIfBuilt ==
    \A r \in Runs :
        Done(r) /\ ExistsAtCheck(r) =>
            /\ Count(r, "construct") = 1
            /\ \A i, j \in Idx(r) :
                  events[r][i].ev = "construct" /\ events[r][j].ev = "exists" =>
                      /\ events[r][i].args = <<SourcePath, OutputPath>>
                      /\ events[r][i].args[1] = events[r][j].args[1]
            /\ IF exc[r] = "ConstructorError"
                 THEN Count(r, "generate") = 0 /\ generator[r] = Unset
                 ELSE /\ Count(r, "generate") = 1
                      /\ \A i \in Idx(r) :
                            events[r][i].ev = "generate" =>
                                events[r][i].args =
                                    <<[source_directory |-> SourcePath,
                                       format_directory |-> OutputPath]>>

C2_Witness ==
    \E r \in Runs :
        /\ Done(r) /\ ExistsAtCheck(r) /\ exc[r] = "none"
        /\ Count(r, "construct") = 1 /\ Count(r, "generate") = 1

\* C3: a step changes the files on disk of a run only if it is that run's call
\* of the delegate's constructor or of generate(), and after a check that
\* found the source directory missing the disk is as it was at the start.
C3_OnlyDelegateWrites ==
    [][\A r \in Runs :
          /\ fs'[r] # fs[r] => pc[r] \in {"construct", "generate"}
          /\ MissingAtCheck(r)' => fs'[r] = fs0']_vars

C3_Witness ==
    \E r \in Runs :
        /\ Done(r) /\ Printed(r, MsgLocation)
        /\ \E e \in fs[r] \ fs0 : e.kind = "file"

\* C4: a run whose check finds the source directory missing raises nothing and
\* ends with exit status 0, the status of a run that printed the confirmation.
C4_MissingSourceExitsZero ==
    \A r \in Runs :
        /\ MissingAtCheck(r) => exc[r] = "none" /\ pc[r] # "uncaught"
        /\ Done(r) /\ (MissingAtCheck(r) \/ Printed(r, MsgLocation)) => exitStatus[r] = 0

C4_Witness ==
    \E r \in Runs : Done(r) /\ MissingAtCheck(r) /\ exitStatus[r] = 0

\* C5: once the constructor or generate() has been called in a world where it
\* raises, the run holds that very exception, executes no further statement of
\* main (neither confirmation line is printed) and ends with exit status 1.
C5_DelegateErrorPropagates ==
    \A r \in Runs :
        /\ Count(r, "construct") > 0 /\ beh.ctorRaises => exc[r] = "ConstructorError"
        /\ Count(r, "generate") > 0 /\ beh.genRaises => exc[r] = "GenerateError"
        /\ DelegateRaised(r) =>
              /\ pc[r] \in {"uncaught", "exited"}
              /\ ~Printed(r, MsgGenerated) /\ ~Printed(r, MsgLocation)
              /\ Done(r) => exitStatus[r] = 1

C5_Witness ==
    \E r \in Runs :
        /\ Done(r) /\ exc[r] = "GenerateError" /\ exitStatus[r] = 1
        /\ Count(r, "generate") = 1

\* C6: two runs in the same world, whatever their command-line arguments, have
\* done the same things with the same paths once both have ended, and while
\* they run the events of one are a prefix of the events of the other.
C6_ArgvIndependent ==
    \A r, q \in Runs :
        /\ Len(events[r]) <= Len(events[q]) =>
              events[r] = SubSeq(events[q], 1, Len(events[r]))
        /\ Done(r) /\ Done(q) =>
              /\ events[r] = events[q]
              /\ exitStatus[r] = exitStatus[q]
              /\ fs[r] = fs[q]

C6_Witness ==
    \E r, q \in Runs :
        /\ argv[r] # argv[q]
        /\ Done(r) /\ Done(q)
        /\ Count(r, "construct") = 1 /\ Count(q, "construct") = 1

\* C7: the driver checks, constructs and generates at most once each; the
\* confirmation is printed only after generate() has returned; and a run that
\* found the source directory and whose delegate raised nothing has done
\* exactly: check, construct, generate, confirmation, location.
C7_SuccessOrder ==
    \A r \in Runs :
        /\ Count(r, "exists") <= 1
        /\ Count(r, "construct") <= 1
        /\ Count(r, "generate") <= 1
        /\ Printed(r, MsgGenerated) =>
              /\ exc[r] = "none"
              /\ SubSeq(EvKinds(r), 1, 4) = <<"exists", "construct", "generate", "print">>
        /\ Done(r) /\ ExistsAtCheck(r) /\ ~DelegateRaised(r) =>
              /\ EvKinds(r) = <<"exists", "construct", "generate", "print", "print">>
              /\ events[r][4].what = MsgGenerated
              /\ events[r][5].what = MsgLocation

C7_Witness ==
    \E r \in Runs : Done(r) /\ ExistsAtCheck(r) /\ Len(events[r]) = 5

\* C8: the location printed is the format_directory that was given to the
\* constructor, followed by "/psql/extras/".
C8_LocationIsFormatDirectory ==
    \A r \in Runs : \A i \in Idx(r) :
        events[r][i].ev = "print" /\ events[r][i].what = MsgLocation =>
            \E j \in 1..(i - 1) :
                /\ events[r][j].ev = "construct"
                /\ events[r][i].args = <<Cat(events[r][j].args[2], ExtrasSuffix)>>
                /\ generator[r] # Unset
                /\ events[r][j].args[2] = generator[r][1].format_directory

C8_Witness ==
    \E r \in Runs :
        /\ Printed(r, MsgLocation)
        /\ file = <<"generate_cross_references.py">>
        /\ events[r][5].args = << <<"output", "psql", "extras", "">> >>

\* C9: a run prints at most one of the ERROR message and the confirmation: the
\* ERROR message only if the generator is never constructed, the confirmation
\* only if generate() was called and returned.
C9_MessagesExclusive ==
    \A r \in Runs :
        /\ ~(Printed(r, MsgError) /\ Printed(r, MsgGenerated))
        /\ Printed(r, MsgError) =>
              /\ Count(r, "construct") = 0
              /\ pc[r] \in {"print_clone", "return", "after_main", "exited"}
        /\ Printed(r, MsgGenerated) =>
              /\ Count(r, "generate") = 1
              /\ exc[r] = "none"
              /\ pc[r] \in {"print_location", "after_main", "exited"}

C9_Witness ==
    \E r \in Runs :
        /\ Done(r) /\ Printed(r, MsgGenerated) /\ ~Printed(r, MsgError)
        /\ Count(r, "generate") = 1

\* C10: whatever kind of entry the source path is, a file included, a run that
\* has checked it goes on to construct the generator with that path and does
\* not print the ERROR message; and the only path the driver ever tests for
\* existence is the source path, never the output directory.
C10_ExistenceOnly ==
    \A r \in Runs :
        /\ Checked(r) /\ (\E e \in fs0 : e.path = SourcePath /\ e.kind \in {"file", "dir"}) =>
              /\ ~Printed(r, MsgError)
              /\ pc[r] \notin {"print_error", "print_clone", "return"}
              /\ pc[r] # "construct" =>
                    \E i \in Idx(r) : /\ events[r][i].ev = "construct"
                                      /\ events[r][i].args[1] = SourcePath
        /\ \A i \in Idx(r) :
              events[r][i].ev = "exists" =>
                  events[r][i].args = <<SourcePath>> /\ SourcePath # OutputPath

C10_Witness ==
    \E r \in Runs :
        /\ Entry(SourcePath, "file") \in fs0
        /\ ~exists(fs0, OutputPath)
        /\ Count(r, "construct") = 1

====
